---- MODULE Spec2Model ----
(***************************************************************************)
(* Model of SemanticScholarRAGCollector.search_papers_for_rag              *)
(* (src/paper_collector.py): the paginated collection loop with its retry  *)
(* executor, the consecutive-failure circuit breaker and the final         *)
(* sort + truncate; and of the top-level flow that calls it and exports    *)
(* the papers.                                                             *)
(*                                                                         *)
(* Data representation.                                                    *)
(*  - An optional value (a dict key that is missing, or a JSON null) is a  *)
(*    sequence of length 0 (None) or 1 (Some(v)).                          *)
(*  - A string is the sequence of its character codes, compared as Python  *)
(*    compares str: lexicographically, a proper prefix being smaller.      *)
(*  - A list of papers is kept run-length encoded: a sequence of runs      *)
(*    [paper |-> p, n |-> k] standing for k consecutive copies of p, so    *)
(*    that pages of batch_size = 100 records stay tractable.  len, extend, *)
(*    the list comprehension, sorted and slicing are defined on runs so    *)
(*    that they agree with the Python operation on the expanded list.      *)
(***************************************************************************)
EXTENDS Integers, Sequences, FiniteSets, TLC

\* ---------------------------------------------------------------- bounds
\* Number of full (batch_size) pages upstream can serve in one run.
MaxFullPages == 2

\* ------------------------------------------------------- program constants
batch_size == 100
\* Mutant of max_consecutive_failures: one failure too many is allowed.
OneMoreFailureAllowed == 3 + 1

max_consecutive_failures == 3
max_retries == 3
\* Mutant of retry_delay: the base delay is doubled.
RetryDelayDoubled == 5 + 5
retry_delay == 5
\* Mutant of cooldown: the cooldown is as short as the first backoff.
CooldownAsRetryDelay == retry_delay
cooldown == 30

\* --------------------------------------------------------------- options
None == << >>
Some(v) == << v >>
IsNone(o) == Len(o) = 0
Val(o) == o[1]

\* x.get(k) or d  : None, and the falsy value of the type, give d
OrElse(o, falsy, d) == IF IsNone(o) \/ Val(o) = falsy THEN d ELSE Val(o)

\* p.get('citationCount', 0) : a missing key gives 0
citationCountOf(p) == IF IsNone(p.citationCount) THEN 0 ELSE Val(p.citationCount)

\* ---------------------------------------------------------------- strings
EmptyStr == << >>

RECURSIVE StrLess(_, _)
\* Python str  a < b
StrLess(a, b) ==
    IF Len(b) = 0 THEN FALSE
    ELSE IF Len(a) = 0 THEN TRUE
    ELSE IF Head(a) # Head(b) THEN Head(a) < Head(b)
    ELSE StrLess(Tail(a), Tail(b))

\* -------------------------------------------------------------- sort key
\* key=lambda x: (x.get('year') or 0, x.get('publicationDate') or '')
SortKey(p) == << OrElse(p.year, 0, 0), OrElse(p.publicationDate, EmptyStr, EmptyStr) >>

\* Python tuple  k1 < k2
KeyLess(k1, k2) ==
    \/ k1[1] < k2[1]
    \/ k1[1] = k2[1] /\ StrLess(k1[2], k2[2])

\* ------------------------------------------------ lists of papers (runs)
Run(p, k) == [paper |-> p, n |-> k]

RECURSIVE ListLen(_)
\* len(list)
ListLen(l) == IF l = << >> THEN 0 ELSE Head(l).n + ListLen(Tail(l))

\* list.extend(other)
Extend(l, other) == l \o other

\* Mutant of Take: the slice is left out.
TakeAll(l, k) == l

\* [:k] for k >= 0 : the first k elements
RECURSIVE Take(_, _)
Take(l, k) ==
    IF k <= 0 \/ l = << >> THEN << >>
    ELSE IF Head(l).n >= k THEN << Run(Head(l).paper, k) >>
    ELSE << Head(l) >> \o Take(Tail(l), k - Head(l).n)

\* Mutant of Filtered: p.get('citationCount', min_citations), a missing
\* count passes the floor.
FilteredMissingPasses(papers, min) ==
    SelectSeq(papers, LAMBDA r :
        (IF IsNone(r.paper.citationCount) THEN min ELSE Val(r.paper.citationCount)) >= min)

\* [p for p in papers if p.get('citationCount', 0) >= min_citations]
Filtered(papers, min) ==
    SelectSeq(papers, LAMBDA r : citationCountOf(r.paper) >= min)

\* Position of x in a list already sorted in descending key order: after
\* every element whose key is >= the key of x (equal keys keep list order).
RECURSIVE InsertDesc(_, _)
InsertDesc(l, x) ==
    IF l = << >> THEN << x >>
    ELSE IF KeyLess(SortKey(Head(l).paper), SortKey(x.paper)) THEN << x >> \o l
    ELSE << Head(l) >> \o InsertDesc(Tail(l), x)

RECURSIVE SortInto(_, _)
SortInto(acc, l) ==
    IF l = << >> THEN acc ELSE SortInto(InsertDesc(acc, Head(l)), Tail(l))

\* Mutant of SortedByKey: reverse=True is left out (ascending, stable).
RECURSIVE InsertAsc(_, _)
InsertAsc(l, x) ==
    IF l = << >> THEN << x >>
    ELSE IF KeyLess(SortKey(x.paper), SortKey(Head(l).paper)) THEN << x >> \o l
    ELSE << Head(l) >> \o InsertAsc(Tail(l), x)

RECURSIVE SortIntoAsc(_, _)
SortIntoAsc(acc, l) ==
    IF l = << >> THEN acc ELSE SortIntoAsc(InsertAsc(acc, Head(l)), Tail(l))

SortedAscending(l) == SortIntoAsc(<< >>, l)

RECURSIVE Reversed(_)
Reversed(l) == IF l = << >> THEN << >> ELSE Reversed(Tail(l)) \o << Head(l) >>

\* Mutant of SortedByKey: sorted ascending, then reversed (ties come out in
\* reverse order).
SortedThenReversed(l) == Reversed(SortedAscending(l))

\* Mutant of SortedByKey: the list is not sorted at all.
Unsorted(l) == l

\* sorted(l, key=..., reverse=True) : descending, stable
SortedByKey(l) == SortInto(<< >>, l)

\* sorted(all_papers, key=..., reverse=True)[:total_limit]
Finalize(l, limit) == Take(SortedByKey(l), limit)

\* ------------------------------------------------------------ input sets
Paper(c, y, d) == [ citationCount |-> c, year |-> y, publicationDate |-> d ]

\* The papers upstream serves in the model: one below the floor of 100 and
\* one without citationCount (each sharing its sort key with a paper at the
\* floor), and papers at the floor over the kinds of sort key.
Corpus ==
    { Paper(Some(50),  Some(2020), Some(<< 1 >>)),
      Paper(None,      None,       None),
      Paper(Some(100), Some(2021), Some(<< 1, 2 >>)),
      Paper(Some(100), Some(2020), Some(<< 1, 2 >>)),
      Paper(Some(100), Some(2020), Some(<< 1 >>)),
      Paper(Some(100), Some(2020), None),
      Paper(Some(100), None,       Some(<< 1 >>)),
      Paper(Some(100), None,       None) }

\* Sizes of the runs of a page, by kind of page.
FullShapes == { << 100 >>, << 50, 50 >> }
ShortShapes == { << 1 >>, << 60, 39 >> }

\* Pages of one run, and pages of two runs of different papers.
OneRun(k) == { << Run(p, k) >> : p \in Corpus }
TwoRuns(j, k) ==
    { pg \in { << Run(p, j), Run(q, k) >> : p \in Corpus, q \in Corpus } :
        pg[1].paper # pg[2].paper }

PagesOf(shapes) ==
    UNION { IF Len(sh) = 1 THEN OneRun(sh[1]) ELSE TwoRuns(sh[1], sh[2]) : sh \in shapes }

FullPages == PagesOf(FullShapes)
ShortPages == PagesOf(ShortShapes)

MinCitations == { 0, 100 }
TotalLimits == { 0, 50, 150 }

\* requests.exceptions raised by requests.get, raise_for_status and json,
\* each with the classes it is an instance of.
Exceptions == { "ReadTimeout", "ConnectionError", "HTTPError", "JSONDecodeError" }

Bases(exc) ==
    CASE exc = "ReadTimeout"     -> { "ReadTimeout", "Timeout", "RequestException" }
      [] exc = "ConnectionError" -> { "ConnectionError", "RequestException" }
      [] exc = "HTTPError"       -> { "HTTPError", "RequestException" }
      [] exc = "JSONDecodeError" -> { "JSONDecodeError", "InvalidJSONError", "RequestException" }

IsInstance(exc, cls) == cls \in Bases(exc)

\* ----------------------------------------------------------------- state
VARIABLES
    min_citations, total_limit, api_key,  \* arguments / configuration
    all_papers, offset, consecutive_failures,
    attempt, success,
    pc,         \* "while", "try", "after_for", "done", "raised"
    result,     \* the returned list
    stop,       \* return path taken: "none", "empty", "short", "end"
    slept,      \* seconds of the time.sleep calls of the last step
    sent,       \* offsets requested by the current retry-executor invocation
    prior_requests, \* some request was sent by an earlier invocation
    page_failures, \* failed page fetches since the last successful page
    raw_len,    \* len(papers) of the last 2xx response
    outcome,    \* how the last request ended: "none", "429", an exception, "empty", "page"
    full_pages, \* full pages served so far
    main_pc,    \* top-level flow: "collect", "exited", "saved_jsonl", "saved_json", "end"
    exit_status, \* status the process exited with, None while it runs
    files,      \* export files written
    reordered,  \* the accumulated records in another order
    result_reordered, \* what finalization makes of them
    reset_from  \* value of consecutive_failures found by the page just received

vars == << min_citations, total_limit, api_key, all_papers, offset,
           consecutive_failures, attempt, success, pc, result, stop, slept,
           sent, prior_requests, page_failures, raw_len, outcome, full_pages,
           main_pc, exit_status, files, reordered, result_reordered,
           reset_from >>

\* State outside the collection loop.
outer == << main_pc, exit_status, files, reordered, result_reordered >>

args == << min_citations, total_limit, api_key >>

Init ==
    /\ min_citations \in MinCitations
    /\ total_limit \in TotalLimits
    /\ api_key \in { None, Some("key") }
    /\ all_papers = << >>
    /\ offset = 0
    /\ consecutive_failures = 0
    /\ attempt = 0
    /\ success = FALSE
    /\ pc = "while"
    /\ result = << >>
    /\ stop = "none"
    /\ slept = 0
    /\ sent = << >>
    /\ prior_requests = FALSE
    /\ page_failures = 0
    /\ raw_len = 0
    /\ outcome = "none"
    /\ full_pages = 0
    /\ main_pc = "collect"
    /\ exit_status = None
    /\ files = { }
    /\ reordered = << >>
    /\ result_reordered = << >>
    /\ reset_from = 0

\* return <list> : the function returns the list
Return(l, path) ==
    /\ result' = l
    /\ stop' = path
    /\ pc' = "done"

\* requests.get(url, params={'offset': offset, ...})
SendRequest ==
    /\ sent' = Append(sent, offset)
    /\ UNCHANGED prior_requests

\* Mutant of NextAttempt: the attempt budget is off by one.
NextAttemptOffByOne ==
    /\ attempt' = attempt + 1
    /\ pc' = IF attempt + 1 <= max_retries THEN "try" ELSE "after_for"

\* End of one pass of  for attempt in range(max_retries)  without break.
NextAttempt ==
    /\ attempt' = attempt + 1
    /\ pc' = IF attempt + 1 < max_retries THEN "try" ELSE "after_for"

\* --------------------------------------------------------------- actions
\* Mutant of LoopTest: the comparison is off by one.
LoopTestOffByOne == ListLen(all_papers) <= total_limit

\* len(all_papers) < total_limit
LoopTest == ListLen(all_papers) < total_limit

\* while len(all_papers) < total_limit:  (test true)  ...  for attempt in range(max_retries):
LoopEnter ==
    /\ pc = "while"
    /\ LoopTest
    /\ attempt' = 0
    /\ success' = FALSE
    /\ sent' = << >>
    /\ slept' = 0
    /\ pc' = "try"
    /\ prior_requests' = (prior_requests \/ sent # << >>)
    /\ UNCHANGED << args, outer, reset_from, all_papers, offset, consecutive_failures, result, stop,
                    page_failures, raw_len, outcome, full_pages >>

\* while len(all_papers) < total_limit:  (test false)  then sort, truncate, return
LoopExit ==
    /\ pc = "while"
    /\ ~ LoopTest
    /\ Return(Finalize(all_papers, total_limit), "end")
    /\ slept' = 0
    /\ UNCHANGED << args, outer, reset_from, all_papers, offset, consecutive_failures, attempt, success,
                    sent, prior_requests, page_failures, raw_len, outcome, full_pages >>

\* Mutant of RateLimited: the backoff grows linearly.
RateLimitedLinear ==
    /\ pc = "try"
    /\ SendRequest
    /\ slept' = retry_delay * (attempt + 1)
    /\ NextAttempt
    /\ outcome' = "429"
    /\ UNCHANGED << args, outer, reset_from, all_papers, offset, consecutive_failures, success, result,
                    stop, page_failures, raw_len, full_pages >>

\* response.status_code == 429
RateLimited ==
    /\ pc = "try"
    /\ SendRequest
    /\ slept' = retry_delay * (2 ^ attempt)
    /\ NextAttempt
    /\ outcome' = "429"
    /\ UNCHANGED << args, outer, reset_from, all_papers, offset, consecutive_failures, success, result,
                    stop, page_failures, raw_len, full_pages >>

\* Mutant of EmptyPage: the empty page returns an empty list.
EmptyPageReturnsNothing ==
    /\ pc = "try"
    /\ SendRequest
    /\ Return(<< >>, "empty")
    /\ slept' = 0
    /\ raw_len' = 0
    /\ outcome' = "empty"
    /\ UNCHANGED << args, outer, reset_from, all_papers, offset, consecutive_failures, attempt, success,
                    page_failures, full_pages >>

\* 2xx response whose 'data' is missing or empty
EmptyPage ==
    /\ pc = "try"
    /\ SendRequest
    /\ Return(Finalize(all_papers, total_limit), "empty")
    /\ slept' = 0
    /\ raw_len' = 0
    /\ outcome' = "empty"
    /\ UNCHANGED << args, outer, reset_from, all_papers, offset, consecutive_failures, attempt, success,
                    page_failures, full_pages >>

\* time.sleep(1) with an API key, time.sleep(3) without
Pacing == IF api_key # None THEN 1 ELSE 3

\* Mutant of IsShort: the filtered list is measured instead of the raw page.
IsShortFiltered(papers) == ListLen(Filtered(papers, min_citations)) < batch_size

\* Mutant of IsShort: a page without survivors ends the collection too.
IsShortOrNoSurvivors(papers) ==
    ListLen(papers) < batch_size \/ Filtered(papers, min_citations) = << >>

\* if len(papers) < batch_size:
IsShort(papers) == ListLen(papers) < batch_size

\* Mutant of NextOffset: the offset moves on by the number of survivors.
NextOffsetBySurvivors(papers) == offset + ListLen(Filtered(papers, min_citations))

\* offset += batch_size
NextOffset(papers) == offset + batch_size

\* Mutant of FailuresAfterPage: a page leaves the failure counter alone.
FailuresAfterPageKept == consecutive_failures

\* consecutive_failures = 0
FailuresAfterPage == 0

\* 2xx response with a non-empty record list
PageReceived(papers) ==
    /\ pc = "try"
    /\ SendRequest
    /\ all_papers' = Extend(all_papers, Filtered(papers, min_citations))
    /\ offset' = NextOffset(papers)
    /\ consecutive_failures' = FailuresAfterPage
    /\ success' = TRUE
    /\ slept' = Pacing
    /\ page_failures' = 0
    /\ raw_len' = ListLen(papers)
    /\ outcome' = "page"
    /\ IF IsShort(papers)
       THEN Return(Finalize(all_papers', total_limit), "short")
       ELSE /\ pc' = "after_for"
            /\ UNCHANGED << result, stop >>
    /\ reset_from' = consecutive_failures
    /\ UNCHANGED << args, outer, attempt >>

\* A page of batch_size records, one of the pages the upstream can serve.
FullPageOf(pages) ==
    /\ full_pages < MaxFullPages
    /\ \E papers \in pages : PageReceived(papers)
    /\ full_pages' = full_pages + 1

\* A page of fewer than batch_size records.
ShortPageOf(pages) ==
    /\ \E papers \in pages : PageReceived(papers)
    /\ UNCHANGED full_pages

FullPage == FullPageOf(FullPages)

ShortPage == ShortPageOf(ShortPages)

\* Mutant of Handler: the second clause catches connection errors only.
HandlerConnectionErrorsOnly(exc) ==
    IF IsInstance(exc, "Timeout") THEN "Timeout"
    ELSE IF IsInstance(exc, "ConnectionError") THEN "RequestException"
    ELSE "none"

\* The except clause that catches exc: the first whose class exc is an
\* instance of ("none": the exception leaves the function).
Handler(exc) ==
    IF IsInstance(exc, "Timeout") THEN "Timeout"
    ELSE IF IsInstance(exc, "RequestException") THEN "RequestException"
    ELSE "none"

\* An exception raised by requests.get, raise_for_status or response.json
Raises(exc) ==
    /\ pc = "try"
    /\ SendRequest
    /\ outcome' = exc
    /\ CASE Handler(exc) = "Timeout" ->
              /\ slept' = retry_delay * (attempt + 1)
              /\ NextAttempt
              /\ UNCHANGED consecutive_failures
         [] Handler(exc) = "RequestException" ->
              /\ IF attempt < max_retries - 1
                 THEN /\ slept' = retry_delay * (attempt + 1)
                      /\ UNCHANGED consecutive_failures
                 ELSE /\ slept' = 0
                      /\ consecutive_failures' = consecutive_failures + 1
              /\ NextAttempt
         [] Handler(exc) = "none" ->
              /\ pc' = "raised"
              /\ slept' = 0
              /\ UNCHANGED << attempt, consecutive_failures >>
    /\ UNCHANGED << args, outer, reset_from, all_papers, offset, success, result, stop,
                    page_failures, raw_len, full_pages >>

RequestFails == \E exc \in Exceptions : Raises(exc)

\* if not success:  (false)  back to the while test
PageDone ==
    /\ pc = "after_for"
    /\ success
    /\ pc' = "while"
    /\ slept' = 0
    /\ reset_from' = 0
    /\ UNCHANGED << args, outer, all_papers, offset, consecutive_failures, attempt, success,
                    result, stop, sent, prior_requests, page_failures, raw_len, outcome, full_pages >>

\* Mutant of PageFailed: the failed fetch is not counted.
PageFailedNotCounted ==
    /\ pc = "after_for"
    /\ ~ success
    /\ consecutive_failures' = consecutive_failures
    /\ page_failures' = page_failures + 1
    /\ IF consecutive_failures' >= max_consecutive_failures
       THEN /\ Return(Finalize(all_papers, total_limit), "end")
            /\ slept' = 0
       ELSE /\ pc' = "while"
            /\ slept' = cooldown
            /\ UNCHANGED << result, stop >>
    /\ UNCHANGED << args, outer, reset_from, all_papers, offset, attempt, success, sent, prior_requests,
                    raw_len, outcome, full_pages >>

\* if not success:  (true)  count the failure, break or cool down
PageFailed ==
    /\ pc = "after_for"
    /\ ~ success
    /\ consecutive_failures' = consecutive_failures + 1
    /\ page_failures' = page_failures + 1
    /\ IF consecutive_failures' >= max_consecutive_failures
       THEN /\ Return(Finalize(all_papers, total_limit), "end")
            /\ slept' = 0
       ELSE /\ pc' = "while"
            /\ slept' = cooldown
            /\ UNCHANGED << result, stop >>
    /\ UNCHANGED << args, outer, reset_from, all_papers, offset, attempt, success, sent, prior_requests,
                    raw_len, outcome, full_pages >>

\* ------------------------------------------------------- top-level flow
\* State of the collection run.
coll == << all_papers, offset, consecutive_failures, attempt, success, pc, result,
           stop, slept, sent, prior_requests, page_failures, raw_len, outcome,
           full_pages, reset_from >>

\* The call made by the top-level flow:
\* SemanticScholarRAGCollector(api_key=None), min_citations=100, total_limit=50
IsMainCall == api_key = None /\ min_citations = 100 /\ total_limit = 50

\* papers = collector.search_papers_for_rag(...) has returned
MainHasPapers(flag) ==
    /\ IsMainCall
    /\ pc = "done"
    /\ main_pc = "collect"
    /\ (ListLen(result) = 0) = ~ flag

\* Mutant of MainNoPapers: the message is printed and the flow goes on.
MainNoPapersGoesOn ==
    /\ MainHasPapers(FALSE)
    /\ files' = files \cup { "papers_rag.jsonl" }
    /\ main_pc' = "saved_jsonl"
    /\ UNCHANGED << args, coll, exit_status, reordered, result_reordered >>

\* if len(papers) == 0: ... exit(1)
MainNoPapers ==
    /\ MainHasPapers(FALSE)
    /\ exit_status' = Some(1)
    /\ main_pc' = "exited"
    /\ UNCHANGED << args, coll, files, reordered, result_reordered >>

\* collector.save_for_rag(papers, output_format='jsonl', output_path='papers_rag')
MainSaveJsonl ==
    /\ MainHasPapers(TRUE)
    /\ files' = files \cup { "papers_rag.jsonl" }
    /\ main_pc' = "saved_jsonl"
    /\ UNCHANGED << args, coll, exit_status, reordered, result_reordered >>

\* collector.save_for_rag(papers, output_format='json', output_path='papers_rag')
MainSaveJson ==
    /\ main_pc = "saved_jsonl"
    /\ files' = files \cup { "papers_rag.json" }
    /\ main_pc' = "saved_json"
    /\ UNCHANGED << args, coll, exit_status, reordered, result_reordered >>

\* json.dump(vector_docs, f) into papers_vector_db.json, then the statistics
\* and the end of the script
MainSaveVectorDb ==
    /\ main_pc = "saved_json"
    /\ files' = files \cup { "papers_vector_db.json" }
    /\ main_pc' = "end"
    /\ exit_status' = Some(0)
    /\ UNCHANGED << args, coll, reordered, result_reordered >>

Next ==
    \/ LoopEnter
    \/ LoopExit
    \/ RateLimited
    \/ EmptyPage
    \/ FullPage
    \/ ShortPage
    \/ RequestFails
    \/ PageDone
    \/ PageFailed
    \/ MainNoPapers
    \/ MainSaveJsonl
    \/ MainSaveJson
    \/ MainSaveVectorDb

Spec == Init /\ [][Next]_vars

\* ------------------------------------------------- runs under fairness
\* Pages of the runs checked for their end: whether a run goes on depends on
\* a page only through its length and the number of its survivors, so the
\* pages are all survivors or none, with the call's floor of 100.
LivePapers == { Paper(Some(100), Some(2020), None), Paper(None, None, None) }
LiveFullPages == { << Run(p, batch_size) >> : p \in LivePapers }
LiveShortPages == { << Run(p, 1) >> : p \in LivePapers }

InitLive == Init /\ min_citations = 100 /\ api_key = None

FullPageLive == FullPageOf(LiveFullPages)

ShortPageLive == ShortPageOf(LiveShortPages)

NextLive ==
    \/ LoopEnter
    \/ LoopExit
    \/ RateLimited
    \/ EmptyPage
    \/ FullPageLive
    \/ ShortPageLive
    \/ RequestFails
    \/ PageDone
    \/ PageFailed

\* The collection under weak fairness: the run is sequential, every HTTP
\* call ends (timeout=30) and every sleep ends, so a step that can be taken
\* is taken.
SpecLive == InitLive /\ [][NextLive]_vars /\ WF_vars(NextLive)

\* ------------------------------------- finalization of reordered records
\* The lists holding the elements of l in any order.
Permuted(l) ==
    { [ i \in 1..Len(l) |-> l[f[i]] ] :
        f \in { g \in [ 1..Len(l) -> 1..Len(l) ] :
                  \A i \in 1..Len(l) : \A j \in 1..Len(l) : i # j => g[i] # g[j] } }

\* Two runs that have accumulated the same records in different orders, at
\* the final sort: the survivors (floor 0) of at most one full page and of a
\* short last page, and the same records in any order.
InitOrder ==
    /\ min_citations = 0
    /\ total_limit \in TotalLimits \ { 0 }
    /\ api_key = None
    /\ all_papers \in { Extend(first, last) :
                          first \in FullPages \cup { << >> }, last \in ShortPages }
    /\ reordered \in Permuted(all_papers)
    /\ result_reordered = << >>
    /\ offset = 0
    /\ consecutive_failures = 0
    /\ attempt = 0
    /\ success = FALSE
    /\ pc = "sort"
    /\ result = << >>
    /\ stop = "none"
    /\ slept = 0
    /\ sent = << >>
    /\ prior_requests = FALSE
    /\ page_failures = 0
    /\ raw_len = 0
    /\ outcome = "none"
    /\ full_pages = 0
    /\ main_pc = "collect"
    /\ exit_status = None
    /\ files = { }
    /\ reset_from = 0

\* sorted(all_papers, key=..., reverse=True)[:total_limit]  in both runs
SortBoth ==
    /\ pc = "sort"
    /\ result' = Finalize(all_papers, total_limit)
    /\ result_reordered' = Finalize(reordered, total_limit)
    /\ pc' = "sorted"
    /\ UNCHANGED << args, all_papers, offset, consecutive_failures, attempt, success,
                    stop, slept, sent, prior_requests, page_failures, raw_len, outcome,
                    full_pages, main_pc, exit_status, files, reordered, reset_from >>

NextOrder == SortBoth

SpecOrder == InitOrder /\ [][NextOrder]_vars

\* ============================================================ properties
\* Vocabulary of the properties, stated on the papers' fields directly.
Returned == pc = "done"

PapersOf(l) == { l[i].paper : i \in 1..Len(l) }

RECURSIVE Count(_, _)
\* Number of copies of paper p in list l.
Count(l, p) ==
    IF l = << >> THEN 0
    ELSE (IF Head(l).paper = p THEN Head(l).n ELSE 0) + Count(Tail(l), p)

HasYear(p) == p.year # None /\ p.year[1] > 0
HasDate(p) == p.publicationDate # None /\ p.publicationDate[1] # << >>
YearOr0(p) == IF HasYear(p) THEN p.year[1] ELSE 0
DateOrEmpty(p) == IF HasDate(p) THEN p.publicationDate[1] ELSE << >>

MinOf(a, b) == IF a < b THEN a ELSE b

\* a <= b for strings: a is a prefix of b, or smaller at the first difference
StrLeq(a, b) ==
    \E k \in 0..MinOf(Len(a), Len(b)) :
        /\ \A i \in 1..k : a[i] = b[i]
        /\ \/ k = Len(a)
           \/ k < Len(a) /\ k < Len(b) /\ a[k + 1] < b[k + 1]

\* key(p) >= key(q) for the key (year or 0, publicationDate or '')
KeyGeq(p, q) ==
    \/ YearOr0(p) > YearOr0(q)
    \/ YearOr0(p) = YearOr0(q) /\ StrLeq(DateOrEmpty(q), DateOrEmpty(p))

\* The list l is the first `limit` elements of a descending sort of `from`.
IsSortedPrefix(l, from, limit) ==
    /\ ListLen(l) = MinOf(ListLen(from), limit)
    /\ \A i \in 1..Len(l) : l[i].n > 0
    /\ \A i \in 1..Len(l) : \A j \in (i + 1)..Len(l) : KeyGeq(l[i].paper, l[j].paper)
    /\ \A p \in PapersOf(l) : Count(l, p) <= Count(from, p)
    /\ \A p \in PapersOf(from) :
          Count(l, p) < Count(from, p) => \A q \in PapersOf(l) : KeyGeq(q, p)

\* C1: every record of the returned list has citationCount >= min_citations,
\* a record without a citationCount counting as 0, on every return path and
\* after every sequence of upstream responses.
C1_CitationFloor ==
    Returned =>
        \A p \in PapersOf(result) :
            (IF p.citationCount = None THEN 0 ELSE p.citationCount[1]) >= min_citations

\* A full page of which half was below the floor of 100 has been filtered,
\* and the 50 survivors were returned.
C1_Witness ==
    /\ Returned
    /\ min_citations = 100
    /\ offset = batch_size
    /\ raw_len = batch_size
    /\ ListLen(result) = 50

\* C2: on each return path (empty page, short last page, end of the loop)
\* the returned list has at most total_limit elements, also when the
\* accumulator holds more than total_limit.
C2_AtMostLimit ==
    Returned => ListLen(result) <= total_limit

\* The short last page made the accumulator overshoot total_limit.
C2_Witness ==
    /\ Returned
    /\ stop = "short"
    /\ ListLen(all_papers) > total_limit
    /\ total_limit > 0
    /\ ListLen(result) = total_limit

\* C3: on every return path the result is the first total_limit elements of
\* the accumulated survivors in descending order of (year or 0,
\* publicationDate or ''): keys never increase along the result, a record
\* with no year comes after every record with a year, and at equal year a
\* record with a date comes before a record without one.
C3_SortedTruncated ==
    Returned =>
        /\ IsSortedPrefix(result, all_papers, total_limit)
        /\ \A i \in 1..Len(result) : \A j \in (i + 1)..Len(result) :
              /\ HasYear(result[j].paper) => HasYear(result[i].paper)
              /\ ( /\ YearOr0(result[i].paper) = YearOr0(result[j].paper)
                   /\ HasDate(result[j].paper) )
                 => HasDate(result[i].paper)

\* A result cut out of an accumulator that was not in key order, holding a
\* record without year and, for one year, records with and without a date.
C3_Witness ==
    /\ Returned
    /\ ListLen(all_papers) > total_limit
    /\ \E i \in 1..Len(all_papers) : \E j \in (i + 1)..Len(all_papers) :
          ~ KeyGeq(all_papers[i].paper, all_papers[j].paper)
    /\ \E p \in PapersOf(result) : ~ HasYear(p)
    /\ \E p \in PapersOf(result) : \E q \in PapersOf(result) :
          /\ HasYear(p) /\ YearOr0(p) = YearOr0(q)
          /\ HasDate(p) /\ ~ HasDate(q)

\* The circuit breaker ended the run.
BreakerTripped == Returned /\ stop = "end" /\ ListLen(all_papers) < total_limit

\* The step is an HTTP request.
IsRequest == sent' # sent /\ sent' # << >>

\* C4: when 3 consecutive page fetches have failed the run has returned,
\* without raising, the sort + truncate of the accumulator; the failed
\* fetches left the records of the earlier pages in the accumulator, and no
\* request follows the return.
C4_BreakerReturnsPartial ==
    /\ [](page_failures >= 3 =>
            /\ Returned
            /\ stop = "end"
            /\ IsSortedPrefix(result, all_papers, total_limit))
    /\ [][page_failures' > page_failures => all_papers' = all_papers]_vars
    /\ [][Returned => ~ IsRequest]_vars

\* Third failed fetch in a row at offset 100: the first page's survivors
\* are returned.
C4_Witness ==
    /\ page_failures = 3
    /\ Returned
    /\ offset = batch_size
    /\ result # << >>

\* C5: a failed page fetch adds exactly one to the consecutive-failure
\* counter whatever its attempts ended with, so the counter equals the
\* number of failed fetches since the last successful page, never exceeds 3,
\* and the circuit breaker trips only after 3 failed fetches in a row.
C5_OneIncrementPerFailedFetch ==
    /\ pc \in { "while", "done" } => consecutive_failures = page_failures
    /\ consecutive_failures <= 3
    /\ BreakerTripped => page_failures >= 3

\* C6: one invocation of the retry executor sends at most 3 requests, all
\* at the same offset; every 429, timeout or request error uses up exactly
\* one attempt; the invocation ends with a page or, after the third failed
\* attempt and no sooner, with a page failure.
C6_ThreeAttemptsSameOffset ==
    /\ Len(sent) <= 3
    /\ \A i \in 1..Len(sent) : sent[i] = sent[1]
    /\ pc = "try" =>
          /\ attempt < 3
          /\ Len(sent) = attempt
          /\ \A i \in 1..Len(sent) : sent[i] = offset
          /\ ~ success
    /\ pc = "after_for" =>
          \/ success /\ outcome = "page"
          \/ ~ success /\ Len(sent) = 3 /\ attempt = 3 /\ outcome \in { "429" } \cup Exceptions

\* The fetch of offset 100 has failed after three requests at offset 100.
C6_Witness ==
    /\ pc = "after_for"
    /\ ~ success
    /\ sent = << batch_size, batch_size, batch_size >>

\* Survivors of a page, read off the papers' fields.
Survivors(papers) ==
    SelectSeq(papers, LAMBDA r :
        (IF r.paper.citationCount = None THEN 0 ELSE r.paper.citationCount[1]) >= min_citations)

\* C7: after a 2xx response whose raw record list is non-empty and shorter
\* than 100 the run has returned the sort + truncate of the accumulator,
\* that page's survivors included, whatever the accumulated count; no
\* request follows.  Only such a response takes the short-page return.
C7_ShortPageStops ==
    /\ []((success /\ raw_len < batch_size) =>
            /\ Returned
            /\ stop = "short"
            /\ IsSortedPrefix(result, all_papers, total_limit))
    /\ [](stop = "short" =>
            /\ Returned /\ success /\ outcome = "page"
            /\ 0 < raw_len /\ raw_len < batch_size)
    /\ [][(stop # "short" /\ stop' = "short") =>
            \E papers \in ShortPages : all_papers' = all_papers \o Survivors(papers)]_vars
    /\ [][stop = "short" => ~ IsRequest]_vars

\* A short page ended the run with fewer than total_limit records.
C7_Witness ==
    /\ stop = "short"
    /\ raw_len = 99
    /\ result # << >>
    /\ ListLen(result) < total_limit

\* C8: a 2xx response with an empty record list ends the run at once, at any
\* offset: the run has returned the sort + truncate of the accumulator, and
\* when the empty page answered the first request of the run the result is
\* empty after exactly one request.
C8_EmptyPageStops ==
    /\ outcome = "empty" =>
          /\ Returned
          /\ stop = "empty"
          /\ raw_len = 0
          /\ IsSortedPrefix(result, all_papers, total_limit)
    /\ stop = "empty" => outcome = "empty"
    /\ (outcome = "empty" /\ offset = 0) =>
          result = << >> /\ \A i \in 1..Len(sent) : sent[i] = 0
    /\ (outcome = "empty" /\ ~ prior_requests /\ Len(sent) = 1) =>
          result = << >> /\ sent = << 0 >>

\* An empty page at offset 100 ended the run with the first page's records.
C8_Witness ==
    /\ outcome = "empty"
    /\ offset = batch_size
    /\ result # << >>

\* C9: filtering never ends the pagination.  A full page (100 raw records)
\* moves the offset on by 100 and leads back to the loop test, whatever
\* survived; the loop test with fewer than total_limit records leads to a
\* request at the new offset; and a run that has returned did so for an
\* empty page, a short page, a full accumulator or the circuit breaker.
C9_FilteringNeverStops ==
    /\ [](Returned =>
            \/ stop = "empty" /\ raw_len = 0
            \/ stop = "short" /\ raw_len < batch_size
            \/ stop = "end" /\ ListLen(all_papers) >= total_limit
            \/ stop = "end" /\ consecutive_failures >= 3)
    /\ [][(pc = "try" /\ outcome' = "page" /\ raw_len' = batch_size) =>
            /\ offset' = offset + 100
            /\ pc' = "after_for"
            /\ success'
            /\ \E papers \in FullPages : all_papers' = all_papers \o Survivors(papers)]_vars
    /\ [][(pc = "after_for" /\ success) =>
            pc' = "while" /\ offset' = offset /\ all_papers' = all_papers]_vars
    /\ [][(pc = "while" /\ ListLen(all_papers) < total_limit) =>
            pc' = "try" /\ offset' = offset /\ sent' = << >>]_vars
    /\ [][pc = "try" => sent' = Append(sent, offset)]_vars

\* total_limit = 50, min_citations = 100: nothing of the first full page
\* survived and the second request went out at offset 100.
C9_Witness ==
    /\ total_limit = 50
    /\ min_citations = 100
    /\ full_pages = 1
    /\ all_papers = << >>
    /\ sent # << >>
    /\ sent[1] = 100

\* C10: no 429, timeout, transport error, non-2xx status or JSON error
\* leaves the function as an exception: each fails the current attempt only,
\* using up one attempt of the budget and leaving accumulator and offset
\* alone, and the run can only end by returning a list.
C10_NeverRaises ==
    /\ [](pc \in { "while", "try", "after_for", "done" })
    /\ [][(pc = "try" /\ outcome' \in { "429" } \cup Exceptions) =>
            /\ attempt' = attempt + 1
            /\ attempt' <= 3
            /\ pc' \in { "try", "after_for" }
            /\ all_papers' = all_papers /\ offset' = offset /\ result' = result]_vars

\* The run returned its partial list after a fetch that ended with a JSON
\* parse error.
C10_Witness ==
    /\ Returned
    /\ outcome = "JSONDecodeError"
    /\ result # << >>

RECURSIVE Canon(_)
\* The run-length encoding of a list with adjacent runs of one element merged:
\* two encodings stand for the same list exactly if their Canon is equal.
Canon(l) ==
    IF Len(l) <= 1 THEN l
    ELSE LET rest == Canon(Tail(l))
         IN  IF Head(l).paper = Head(rest).paper
             THEN << [ paper |-> Head(l).paper, n |-> Head(l).n + Head(rest).n ] >>
                  \o Tail(rest)
             ELSE << Head(l) >> \o rest

\* The sort keys along a list.
KeysAlong(l) ==
    Canon([ i \in 1..Len(l) |->
              [ paper |-> << YearOr0(l[i].paper), DateOrEmpty(l[i].paper) >>,
                n |-> l[i].n ] ])

\* No two different records of l have the same sort key.
NoSharedKey(l) ==
    \A p \in PapersOf(l) : \A q \in PapersOf(l) :
        p # q => ~ (KeyGeq(p, q) /\ KeyGeq(q, p))

Sorted2 == pc = "sorted"

\* C11 (as stated): two runs that accumulated the same records in different
\* orders return identical lists.
C11_OrderIndependent ==
    Sorted2 => Canon(result) = Canon(result_reordered)

\* C11 (amended): two runs that accumulated the same records in different
\* orders return lists of the same length with the same sort keys position
\* by position, and identical lists when no two different accumulated
\* records share a sort key.
C11_SameKeysInAnyOrder ==
    Sorted2 =>
        /\ ListLen(result) = ListLen(result_reordered)
        /\ KeysAlong(result) = KeysAlong(result_reordered)
        /\ NoSharedKey(all_papers) => Canon(result) = Canon(result_reordered)

\* Three or more runs without a shared key, out of key order, accumulated in
\* two different orders and cut to total_limit.
C11_Witness ==
    /\ Sorted2
    /\ Len(all_papers) >= 3
    /\ NoSharedKey(all_papers)
    /\ Canon(reordered) # Canon(all_papers)
    /\ ListLen(all_papers) > total_limit
    /\ \E i \in 1..Len(all_papers) : \E j \in (i + 1)..Len(all_papers) :
          ~ KeyGeq(all_papers[i].paper, all_papers[j].paper)
    /\ result # << >>

\* ------------------------------------------------------------------ C12
Exports == { "papers_rag.jsonl", "papers_rag.json", "papers_vector_db.json" }

\* The top-level flow has left the statement that tests the number of papers.
PastTheTest == main_pc # "collect"

\* C12: in the top-level flow a collection that returns zero records ends the
\* program with exit status 1 before any export file is written; a collection
\* that returns at least one record does not exit there and goes on to the
\* exports.
C12_ZeroRecordsExitOne ==
    /\ [] (PastTheTest /\ ListLen(result) = 0 =>
               exit_status = << 1 >> /\ files = { } /\ main_pc = "exited")
    /\ [] (PastTheTest /\ ListLen(result) > 0 =>
               /\ exit_status # << 1 >>
               /\ main_pc # "exited"
               /\ "papers_rag.jsonl" \in files)
    /\ [] (files \subseteq Exports /\ (files # { } => Returned /\ result # << >>))
    /\ [] (exit_status = << 1 >> => Returned /\ result = << >> /\ files = { })
    /\ [][ main_pc # "collect" => files \subseteq files' /\ exit_status' # << 1 >> ]_vars

\* The only page was non-empty and all of its records were below the floor:
\* zero records, exit status 1, nothing written.
C12_Witness ==
    /\ exit_status = << 1 >>
    /\ stop = "short"
    /\ raw_len > 0
    /\ all_papers = << >>
    /\ files = { }

\* ------------------------------------------------------------------ C13
\* A page fetch has failed (its attempts are used up without a page) and the
\* failure does not end the run.
FailedFetchGoesOn == pc = "after_for" /\ ~ success /\ pc' = "while"

\* C13: a failed page fetch that does not trip the circuit breaker leaves the
\* offset and the accumulator unchanged and waits 30 seconds; the next request
\* goes to the same offset with a fresh budget of 3 attempts; the offset
\* changes only on a successful non-empty page.
C13_FailedFetchKeepsCursor ==
    /\ [][ FailedFetchGoesOn =>
             slept' = 30 /\ offset' = offset /\ all_papers' = all_papers ]_vars
    /\ [][ offset' # offset \/ all_papers' # all_papers =>
             outcome' = "page" /\ success' /\ raw_len' > 0 ]_vars
    /\ [][ offset' # offset => pc = "try" /\ offset' = offset + 100 ]_vars
    /\ [][ pc = "while" /\ pc' = "try" =>
             attempt' = 0 /\ sent' = << >> /\ offset' = offset ]_vars
    /\ [] (slept = 30 =>
             /\ pc = "while"
             /\ page_failures >= 1
             /\ ListLen(all_papers) < total_limit)
    /\ [] (pc = "try" =>
             /\ attempt < 3
             /\ Len(sent) = attempt
             /\ \A i \in 1..Len(sent) : sent[i] = offset)

\* After a first page, one fetch at offset 100 failed, the run cooled down
\* and the first request of the next fetch went to offset 100 again.
C13_Witness ==
    /\ page_failures = 1
    /\ pc = "try"
    /\ offset = 100
    /\ all_papers # << >>
    /\ sent = << 100 >>
    /\ attempt = 1

\* ------------------------------------------------------------------ C14
\* The step receives a non-empty page.
IsPage == pc = "try" /\ outcome' = "page"

\* C14: every successful non-empty page sets the consecutive-failure counter
\* to 0 whatever its previous value, so the counter never holds more than the
\* failures since the last successful page, and the circuit breaker trips
\* only on failed fetches with no successful page in between.
C14_PageResetsCounter ==
    /\ [][ IsPage => consecutive_failures' = 0 ]_vars
    /\ [] (page_failures = 0 /\ pc \in { "while", "try" } => consecutive_failures = 0)
    /\ [] (consecutive_failures <= 2 * page_failures
                 + (IF pc \in { "after_for", "raised" } /\ ~ success THEN 1 ELSE 0))
    /\ [] (BreakerTripped => page_failures >= 2)

\* A page arrived when the counter stood at 2 and set it to 0.
C14_Witness ==
    /\ outcome = "page"
    /\ pc = "after_for"
    /\ reset_from = 2
    /\ consecutive_failures = 0
    /\ page_failures = 0

\* Failed fetches on both sides of a successful page: the breaker tripped on
\* the ones after the page only.
C14_WitnessTrip ==
    /\ BreakerTripped
    /\ all_papers # << >>
    /\ page_failures = 2

\* ------------------------------------------------------------------ C15
\* The step receives a 429 response.
Is429 == pc = "try" /\ outcome' = "429"

\* C15: a 429 response on attempt k (0, 1, 2) waits 5 * 2^k seconds (5, 10,
\* 20) and uses up the attempt; after the third attempt the fetch is not
\* retried and counts as failed.
C15_RateLimitBackoff ==
    /\ [][ Is429 =>
             /\ attempt \in { 0, 1, 2 }
             /\ slept' = (IF attempt = 0 THEN 5 ELSE IF attempt = 1 THEN 10 ELSE 20)
             /\ attempt' = attempt + 1
             /\ ~ success'
             /\ offset' = offset
             /\ all_papers' = all_papers
             /\ consecutive_failures' = consecutive_failures
             /\ pc' = (IF attempt = 2 THEN "after_for" ELSE "try") ]_vars
    /\ [] (pc = "after_for" /\ outcome = "429" =>
             ~ success /\ sent = << offset, offset, offset >>)
    /\ [][ pc = "after_for" /\ outcome = "429" =>
             page_failures' = page_failures + 1 /\ sent' = sent ]_vars

\* The third attempt of a fetch got a 429: 20 seconds of backoff, then the
\* fetch is over without a page.
C15_Witness ==
    /\ outcome = "429"
    /\ pc = "after_for"
    /\ slept = 20
    /\ Len(sent) = 3
    /\ ~ success

\* ------------------------------------------------------------------ C16
TimeoutErrors == { "ReadTimeout" }
OtherRequestErrors == { "ConnectionError", "HTTPError", "JSONDecodeError" }

\* The step's request ends with one of the exceptions of E.
FailsWith(E) == pc = "try" /\ outcome' \in E

\* C16: a timeout or another request error on attempt 0 or 1 waits
\* 5 * (attempt + 1) seconds (5, 10) and the request is retried at the same
\* offset; a request error other than a timeout on attempt 2 ends the fetch
\* as failed with no wait and no further retry.
C16_ErrorBackoff ==
    /\ [][ FailsWith(TimeoutErrors \cup OtherRequestErrors) /\ attempt < 2 =>
             /\ slept' = (IF attempt = 0 THEN 5 ELSE 10)
             /\ pc' = "try"
             /\ attempt' = attempt + 1
             /\ offset' = offset
             /\ consecutive_failures' = consecutive_failures ]_vars
    /\ [][ FailsWith(OtherRequestErrors) /\ attempt = 2 =>
             /\ slept' = 0
             /\ pc' = "after_for"
             /\ ~ success'
             /\ offset' = offset ]_vars
    /\ [][ IsRequest => sent'[Len(sent')] = offset /\ Len(sent') <= 3 ]_vars
    /\ [] (pc = "after_for" /\ outcome \in OtherRequestErrors => ~ success /\ slept = 0)
    /\ [][ pc = "after_for" /\ outcome \in OtherRequestErrors =>
             page_failures' = page_failures + 1 /\ sent' = sent ]_vars

\* A fetch at offset 100 whose attempts 0 and 1 failed and were retried, and
\* whose attempt 2 ended with an HTTP error: no wait, the fetch is over.
C16_Witness ==
    /\ outcome = "HTTPError"
    /\ pc = "after_for"
    /\ slept = 0
    /\ sent = << 100, 100, 100 >>
    /\ ~ success

\* The second attempt timed out: 10 seconds of backoff before the third.
C16_WitnessTimeout ==
    /\ outcome = "ReadTimeout"
    /\ pc = "try"
    /\ attempt = 2
    /\ slept = 10

\* ------------------------------------------------------------------ C17
\* p and q have equal sort keys.
SameKey(p, q) == KeyGeq(p, q) /\ KeyGeq(q, p)

\* The records of l whose sort key is that of p, in the order of l.
WithKeyOf(l, p) == SelectSeq(l, LAMBDA r : SameKey(r.paper, p))

RECURSIVE FirstN(_, _)
\* The first n records of l.
FirstN(l, n) ==
    IF n <= 0 \/ l = << >> THEN << >>
    ELSE IF Head(l).n <= n THEN << Head(l) >> \o FirstN(Tail(l), n - Head(l).n)
    ELSE << [ paper |-> Head(l).paper, n |-> n ] >>

\* C17: the final sort is stable: the records of the result that share a
\* sort key are, in the same order, the first of the accumulator's records
\* with that key, i.e. they stand in the order in which they were fetched.
C17_StableSort ==
    Returned =>
        \A p \in PapersOf(result) :
            Canon(WithKeyOf(result, p))
              = Canon(FirstN(WithKeyOf(all_papers, p),
                             ListLen(WithKeyOf(result, p))))

\* The result holds two different records with one sort key, and the sort
\* had to move a record with a greater key over them.
C17_Witness ==
    /\ Returned
    /\ \E i \in 1..Len(result) : \E j \in (i + 1)..Len(result) :
          /\ result[i].paper # result[j].paper
          /\ SameKey(result[i].paper, result[j].paper)
    /\ Canon(result) # Canon(FirstN(all_papers, total_limit))
    /\ ListLen(all_papers) > total_limit

\* ------------------------------------------------------------------ C18
\* Successful non-empty pages so far: the full pages, and the short page that
\* ended the run.
PagesSoFar == full_pages + (IF stop = "short" THEN 1 ELSE 0)

\* C18: at every request the offset is 100 times the number of successful
\* non-empty pages so far; offsets are requested in non-decreasing order from
\* 0, the offset moves by exactly one page and only when the page at the
\* current offset was fetched successfully, so no offset is skipped and no
\* page is accumulated twice.
C18_OffsetCountsPages ==
    /\ [] (offset = 100 * PagesSoFar)
    /\ [] (pc = "try" => stop = "none" /\ \A i \in 1..Len(sent) : sent[i] = 100 * full_pages)
    /\ [][ IsRequest => sent'[Len(sent')] = 100 * full_pages ]_vars
    /\ [][ offset' >= offset ]_vars
    /\ [][ offset' # offset =>
             /\ IsPage
             /\ sent'[Len(sent')] = offset
             /\ offset' = offset + 100 ]_vars
    /\ [][ all_papers' # all_papers =>
             /\ IsPage
             /\ offset' = offset + 100
             /\ ListLen(all_papers') <= ListLen(all_papers) + raw_len' ]_vars
    /\ [] (ListLen(all_papers) <= offset)

\* Two pages were fetched, a fetch at offset 200 failed, and the next request
\* went to offset 200.
C18_Witness ==
    /\ pc = "try"
    /\ full_pages = 2
    /\ offset = 200
    /\ page_failures = 1
    /\ sent = << 200 >>

\* ------------------------------------------------------------------ C19
\* What is left of the run: the full pages the upstream can still serve, then
\* the failures the circuit breaker still tolerates, then the position within
\* the current fetch.
Rank ==
    IF Returned THEN 0
    ELSE 1 + (MaxFullPages - full_pages) * 100
           + (4 - consecutive_failures) * 10
           + (CASE pc = "after_for" /\ success -> 7
                [] pc = "while" -> 6
                [] pc = "try" -> 5 - attempt
                [] OTHER -> 1)

\* C19: when the upstream serves finitely many full pages, the run returns
\* after every interleaving of pages, 429 responses, timeouts and errors:
\* every step of the run brings it closer to its return.
C19_RunReturns ==
    /\ <> Returned
    /\ [] (Rank \in Nat)
    /\ [][ ~ Returned => Rank' < Rank ]_vars

\* The run returned after all the full pages the upstream had, with failed
\* fetches in between.
C19_Witness ==
    /\ Returned
    /\ full_pages = MaxFullPages
    /\ page_failures >= 1
    /\ prior_requests

\* ------------------------------------------------------------------ C20
\* The accumulator holds at least total_limit records.
LimitReached == ListLen(all_papers) >= total_limit

\* C20: a page fetch, first try or retry after a cooldown, is started only
\* while the accumulator holds fewer than total_limit records; once it holds
\* at least total_limit no further request is made; with total_limit <= 0
\* the run makes no request at all and returns an empty list.
C20_LoopGuard ==
    /\ [][ IsRequest => ~ LimitReached ]_vars
    /\ [][ pc = "while" /\ pc' = "try" => ~ LimitReached ]_vars
    /\ [] (pc = "try" => ~ LimitReached)
    /\ [][ LimitReached => sent' = sent /\ all_papers' = all_papers /\ offset' = offset ]_vars
    /\ [][ LimitReached /\ pc = "while" => pc' = "done" /\ stop' = "end" ]_vars
    /\ [] (total_limit <= 0 =>
             /\ pc \in { "while", "done" }
             /\ sent = << >>
             /\ ~ prior_requests
             /\ outcome = "none"
             /\ offset = 0
             /\ (Returned => result = << >>))

\* After a failed fetch and a full page of survivors the accumulator reached
\* the limit of 50, and the run returned from the loop test with no further
\* request.
C20_Witness ==
    /\ Returned
    /\ stop = "end"
    /\ total_limit = 50
    /\ LimitReached
    /\ offset = 100
    /\ sent = << 0 >>
    /\ prior_requests

\* A run with total_limit = 0 returned the empty list without a request.
C20_WitnessZero ==
    /\ Returned
    /\ total_limit = 0
    /\ result = << >>
    /\ sent = << >>

====
